---- MODULE Spec2Model ----
(***************************************************************************)
(* A model of the Blogspot archiver (utils/blog_arch.py) and of the        *)
(* single-post converter (utils/convert_post.py).                          *)
(*                                                                         *)
(* Strings are sequences of one-character strings, so that str.replace,    *)
(* str.startswith, urljoin and os.path.basename are computed character by  *)
(* character.  An HTML page is a sequence of references [ctx, val]: the    *)
(* markup context a regular expression of archive_post recognises and the  *)
(* attribute value it captures (ctx "text" is any other place the string   *)
(* occurs, such as an <a href>).  The attribute values of the model        *)
(* contain no character sequence of the surrounding markup and no quote,   *)
(* so str.replace on the page acts on the values alone.                    *)
(***************************************************************************)
EXTENDS Integers, Sequences, FiniteSets, TLC

\* --------------------------------------------------------------- bounds
\* the references of a page, the requests to the feed, the elements of a body
MaxRefs == 2
MaxPages == 2
MaxElems == 3

\* ------------------------------------------------------------- strings
Http == <<"h","t","t","p",":","/","/","h","/">>
PageUrl == Http \o <<"p">>
DataPrefix == <<"d","a","t","a",":">>
ImagesDir == <<".","/","i","m","a","g","e","s","/">>
CssDir == <<".","/","c","s","s","/">>
ImgDir == <<"i","m","g","/">>
StyleCss == <<"s","t","y","l","e",".","c","s","s">>
Letters == {"a","c","d","e","g","h","i","l","m","p","s","t","y"}
SchemeChars == Letters \cup {"1","2","+","-","."}

\* str.startswith
StartsWith(s, p) == Len(s) >= Len(p) /\ SubSeq(s, 1, Len(p)) = p

\* whether p occurs in s at position i
OccursAt(s, p, i) == i + Len(p) - 1 <= Len(s) /\ SubSeq(s, i, i + Len(p) - 1) = p

\* `p in s` for strings
Contains(s, p) == \E i \in 1..(Len(s) + 1) : OccursAt(s, p, i)

RECURSIVE ReplaceFrom(_, _, _, _)
ReplaceFrom(s, old, new, i) ==
  IF i > Len(s) THEN <<>>
  ELSE IF OccursAt(s, old, i) THEN new \o ReplaceFrom(s, old, new, i + Len(old))
  ELSE <<s[i]>> \o ReplaceFrom(s, old, new, i + 1)

\* str.replace(old, new) for a non-empty old: leftmost non-overlapping
\* occurrences, scanned left to right
StrReplace(s, old, new) == ReplaceFrom(s, old, new, 1)

\* index of the last "/" of s, 0 when there is none (str.rfind + 1)
RECURSIVE LastSlash(_, _)
LastSlash(s, i) == IF i = 0 THEN 0 ELSE IF s[i] = "/" THEN i ELSE LastSlash(s, i - 1)

\* index of the first occurrence of character c at or after i, 0 when none
RECURSIVE FirstChar(_, _, _)
FirstChar(s, c, i) ==
  IF i > Len(s) THEN 0 ELSE IF s[i] = c THEN i ELSE FirstChar(s, c, i + 1)

\* str.split("/")
RECURSIVE SplitSlash(_)
SplitSlash(s) ==
  IF FirstChar(s, "/", 1) = 0 THEN <<s>>
  ELSE <<SubSeq(s, 1, FirstChar(s, "/", 1) - 1)>>
         \o SplitSlash(SubSeq(s, FirstChar(s, "/", 1) + 1, Len(s)))

\* "/".join(segs)
RECURSIVE JoinSlash(_)
JoinSlash(segs) ==
  IF Len(segs) = 0 THEN <<>>
  ELSE IF Len(segs) = 1 THEN segs[1]
  ELSE segs[1] \o <<"/">> \o JoinSlash(Tail(segs))

\* urlsplit's scheme: the characters before the first ":" (at index k) when
\* they form a scheme, <<>> when there is none
SchemeAt(u, k) ==
  IF k > 1 /\ u[1] \in Letters /\ \A j \in 1..(k - 1) : u[j] \in SchemeChars
  THEN SubSeq(u, 1, k - 1) ELSE <<>>

SchemeOf(u) == SchemeAt(u, FirstChar(u, ":", 1))

\* netloc and path of r, a URL without its scheme: the netloc follows "//"
\* and ends before the next "/" (at index k, 0 when there is none)
NetlocPath(r, k) ==
  IF StartsWith(r, <<"/","/">>)
  THEN IF k = 0 THEN [netloc |-> SubSeq(r, 3, Len(r)), path |-> <<>>]
       ELSE [netloc |-> SubSeq(r, 3, k - 1), path |-> SubSeq(r, k, Len(r))]
  ELSE [netloc |-> <<>>, path |-> r]

SplitRest(sch, r) ==
  [scheme |-> sch, rest |-> r,
   netloc |-> NetlocPath(r, FirstChar(r, "/", 3)).netloc,
   path |-> NetlocPath(r, FirstChar(r, "/", 3)).path]

SplitWith(u, sch) ==
  SplitRest(sch, IF sch = <<>> THEN u ELSE SubSeq(u, Len(sch) + 2, Len(u)))

\* urlparse(u): scheme, netloc and path (the model's URLs carry no query and
\* no fragment); rest is u without "scheme:"
UrlParse(u) == SplitWith(u, SchemeOf(u))

\* urlparse(u).path
PathOf(u) == UrlParse(u).path

\* os.path.basename
Basename(p) == SubSeq(p, LastSlash(p, Len(p)) + 1, Len(p))

\* urljoin's resolution of the "." and ".." segments
RECURSIVE ResolveSegs(_, _)
ResolveSegs(segs, acc) ==
  IF Len(segs) = 0 THEN acc
  ELSE ResolveSegs(Tail(segs),
         IF Head(segs) = <<".", ".">>
         THEN (IF Len(acc) = 0 THEN acc ELSE SubSeq(acc, 1, Len(acc) - 1))
         ELSE IF Head(segs) = <<".">> THEN acc
         ELSE Append(acc, Head(segs)))

\* urljoin's removal of the empty segments strictly inside the list
NonEmptySeg(x) == x # <<>>

DropInnerEmpty(segs) ==
  IF Len(segs) <= 2 THEN segs
  ELSE <<segs[1]>> \o SelectSeq(SubSeq(segs, 2, Len(segs) - 1), NonEmptySeg)
         \o <<segs[Len(segs)]>>

\* urljoin's path when the reference has no scheme and no netloc: the
\* resolved segments res of segs, a trailing "" after a final "." or ".."
JoinResolved(segs, res) ==
  JoinSlash(IF segs[Len(segs)] = <<".">> \/ segs[Len(segs)] = <<".", ".">>
            THEN Append(res, <<>>) ELSE res)

\* urlunparse puts "/" before a path that does not start with one
WithSlash(joined) ==
  IF joined = <<>> \/ joined[1] # "/" THEN <<"/">> \o joined ELSE joined

JoinSegs(segs) == WithSlash(JoinResolved(segs, ResolveSegs(segs, <<>>)))

\* the base path's segments without its last (the file name)
BaseDir(bsegs) ==
  IF bsegs[Len(bsegs)] # <<>> THEN SubSeq(bsegs, 1, Len(bsegs) - 1) ELSE bsegs

JoinParsed(base, url, b, u) ==
  IF u.scheme # <<>> /\ u.scheme # b.scheme THEN url
  ELSE IF u.netloc # <<>> THEN b.scheme \o <<":">> \o u.rest
  ELSE IF u.path = <<>> THEN base
  ELSE b.scheme \o <<":","/","/">> \o b.netloc
         \o JoinSegs(IF u.path[1] = "/" THEN SplitSlash(u.path)
                     ELSE DropInnerEmpty(BaseDir(SplitSlash(b.path))
                                           \o SplitSlash(u.path)))

\* urllib.parse.urljoin(base, url) for an http base
urljoin(base, url) == JoinParsed(base, url, UrlParse(base), UrlParse(url))

\* ------------------------------------------------- archive_post (blog_arch)
\* archive_post: the position in the function, the directories made, the
\* requests for the page, whether the skip was reported, the page as fetched,
\* html, the string the current re.finditer iterates and the number of the
\* match it is at, mapping, the calls of download_file, and index.html
VARIABLES pc, dirs, pageGets, skipLogged, page, html, scan, k, mapping,
          downloads, written, out

avars == <<pc, dirs, pageGets, skipLogged, page, html, scan, k, mapping,
           downloads, written, out>>

\* fetch_entries and main: the position, entries, idx, the start-index of
\* every request, the pages received, posts, the number of posts the loop has
\* taken, the posts passed to archive_post, how the last call ended, and
\* whether an error was printed to stderr
VARIABLES mpc, entries, idx, reqs, pages, posts, pos, calls, lastOutcome,
          errorLogged

mvars == <<mpc, entries, idx, reqs, pages, posts, pos, calls, lastOutcome,
           errorLogged>>

\* convert_post: the position, the elements' names, class lists and src
\* attributes, their children in order (0 is the parsed body itself), the
\* document as parsed, the elements the current find_all loop has left, the
\* calls of download_file, and whether the file was written
VARIABLES cpc, tag, cls, src, kids, doc0, todo, cdownloads, cwritten

cvars == <<cpc, tag, cls, src, kids, doc0, todo, cdownloads, cwritten>>

vars == <<avars, mvars, cvars>>

\* the attribute values a page may carry: an absolute URL, two relative
\* spellings (the first resolves to the absolute one), a URL whose path ends
\* in "/", and a data URI
AbsUrl == Http \o <<"1">>
RelUrl == <<"1">>
RelUrl2 == <<"2">>
DirUrl == Http \o <<"2", "/">>
DataUri == DataPrefix \o <<"1">>
Vals == {AbsUrl, RelUrl, RelUrl2, DirUrl, DataUri}
ImageCtxs == {"image_src", "og:image", "img"}
Ctxs == {"stylesheet"} \cup ImageCtxs \cup {"text"}

\* a tag the regular expression matches; val = <<>> is a <link> or <meta>
\* without the attribute (an <img> without src is not matched at all)
Refs == [ctx : Ctxs, val : Vals]
          \cup [ctx : {"stylesheet", "image_src", "og:image"}, val : {<<>>}]

RECURSIVE SeqsUpTo(_, _)
SeqsUpTo(S, n) ==
  IF n = 0 THEN {<<>>}
  ELSE LET shorter == SeqsUpTo(S, n - 1)
       IN shorter \cup {Append(q, x) : q \in {r \in shorter : Len(r) = n - 1}, x \in S}

Docs == SeqsUpTo(Refs, MaxRefs)

\* the feed entry's link array and its published timestamp
Links == { [rel |-> "alternate", type |-> "text/html", href |-> PageUrl],
           [rel |-> "replies", type |-> "text/html", href |-> PageUrl \o <<"/", "c">>] }
Posts == [publishedOk : BOOLEAN, link : SeqsUpTo(Links, 2)]

\* next((L["href"] for L in post.get("link", []) if ...), None); <<>> is None
RECURSIVE HtmlUrl(_)
HtmlUrl(link) ==
  IF link = <<>> THEN <<>>
  ELSE IF Head(link).rel = "alternate" /\ Head(link).type = "text/html"
       THEN Head(link).href
  ELSE HtmlUrl(Tail(link))

\* html.replace(old, new) on a page
HtmlReplace(h, old, new) ==
  [n \in 1..Len(h) |-> [ctx |-> h[n].ctx, val |-> StrReplace(h[n].val, old, new)]]

\* the positions of the tags re.finditer yields for one context, in order
RECURSIVE Matches(_, _, _)
Matches(h, ctx, n) ==
  IF n > Len(h) THEN <<>>
  ELSE IF h[n].ctx = ctx THEN <<n>> \o Matches(h, ctx, n + 1)
  ELSE Matches(h, ctx, n + 1)

\* download_file: requests has a connection adapter for http(s) alone, and
\* any request may fail
DownloadOutcomes(full) == IF SchemeOf(full) = <<"h","t","t","p">> THEN {TRUE, FALSE} ELSE {FALSE}

\* name = os.path.basename(urlparse(full).path) or "style.css"
CssName(full) ==
  IF Basename(PathOf(full)) = <<>> THEN StyleCss ELSE Basename(PathOf(full))

\* a mutation of ImageName: the stylesheet loop's fallback copied to images
ImageNameWithFallback(full) ==
  IF Basename(PathOf(full)) = <<>> THEN StyleCss ELSE Basename(PathOf(full))

\* name = os.path.basename(urlparse(full).path)
ImageName(full) == Basename(PathOf(full))

\* orig.startswith("data:") or orig in mapping
SkipImage(orig, m) ==
  StartsWith(orig, DataPrefix) \/ \E j \in 1..Len(m) : m[j].orig = orig

\* for orig, local in mapping.items(): html = html.replace(orig, local)
RECURSIVE ApplyMapping(_, _)
ApplyMapping(h, m) ==
  IF m = <<>> THEN h
  ELSE ApplyMapping(HtmlReplace(h, Head(m).orig, Head(m).local), Tail(m))

AInit ==
  /\ pc = "start"
  /\ dirs = {}
  /\ pageGets = 0
  /\ skipLogged = FALSE
  /\ page = <<>>
  /\ html = <<>>
  /\ scan = <<>>
  /\ k = 1
  /\ mapping = <<>>
  /\ downloads = <<>>
  /\ written = FALSE
  /\ out = <<>>

\* lines 59-74: the timestamp, the post directory, the HTML link
Begin ==
  /\ pc = "start"
  /\ \E post \in Posts :
       IF ~post.publishedOk
       THEN /\ pc' = "raised"
            /\ UNCHANGED <<dirs, skipLogged>>
       ELSE /\ dirs' = dirs \cup {"post_dir"}
            /\ IF HtmlUrl(post.link) = <<>>
               THEN skipLogged' = TRUE /\ pc' = "skipped"
               ELSE skipLogged' = FALSE /\ pc' = "fetch"
  /\ UNCHANGED <<pageGets, page, html, scan, k, mapping, downloads, written, out>>
  /\ UNCHANGED <<mvars, cvars>>

\* lines 77-84: the page itself; the stylesheet loop iterates the page as fetched
FetchPage ==
  /\ pc = "fetch"
  /\ pageGets' = pageGets + 1
  /\ \/ /\ pc' = "raised"
        /\ UNCHANGED <<dirs, page, html, scan>>
     \/ \E doc \in Docs :
          /\ page' = doc
          /\ html' = doc
          /\ scan' = doc
          /\ dirs' = dirs \cup {"css"}
          /\ pc' = "css"
  /\ UNCHANGED <<skipLogged, k, mapping, downloads, written, out>>
  /\ UNCHANGED <<mvars, cvars>>

\* lines 84-99: one iteration of the stylesheet loop
CssStep ==
  /\ pc = "css"
  /\ k <= Len(Matches(scan, "stylesheet", 1))
  /\ LET at == Matches(scan, "stylesheet", 1)[k]
         orig == scan[at].val
         full == urljoin(PageUrl, orig)
         name == CssName(full)
     IN IF orig = <<>>
        THEN UNCHANGED <<html, downloads>>
        ELSE \E ok \in DownloadOutcomes(full) :
               /\ downloads' = Append(downloads,
                    [ctx |-> "stylesheet", at |-> at, orig |-> orig, url |-> full,
                     name |-> name, ok |-> ok])
               /\ html' = IF ok THEN HtmlReplace(html, orig, CssDir \o name) ELSE html
  /\ k' = k + 1
  /\ UNCHANGED <<pc, dirs, pageGets, skipLogged, page, scan, mapping, written, out>>
  /\ UNCHANGED <<mvars, cvars>>

\* lines 102-107: the image loops iterate the page as the stylesheet loop left it
CssDone ==
  /\ pc = "css"
  /\ k > Len(Matches(scan, "stylesheet", 1))
  /\ dirs' = dirs \cup {"images"}
  /\ mapping' = <<>>
  /\ scan' = html
  /\ k' = 1
  /\ pc' = "image_src"
  /\ UNCHANGED <<pageGets, skipLogged, page, html, downloads, written, out>>
  /\ UNCHANGED <<mvars, cvars>>

\* the body the three image loops share (lines 108-125, 129-146, 150-163)
ImageLoopBody(ctx) ==
  /\ pc = ctx
  /\ k <= Len(Matches(scan, ctx, 1))
  /\ LET at == Matches(scan, ctx, 1)[k]
         orig == scan[at].val
         full == urljoin(PageUrl, orig)
         name == ImageName(full)
     IN IF orig = <<>> \/ SkipImage(orig, mapping) \/ name = <<>>
        THEN UNCHANGED <<mapping, downloads>>
        ELSE \E ok \in DownloadOutcomes(full) :
               /\ downloads' = Append(downloads,
                    [ctx |-> ctx, at |-> at, orig |-> orig, url |-> full,
                     name |-> name, ok |-> ok])
               /\ mapping' = IF ok
                             THEN Append(mapping, [orig |-> orig, local |-> ImagesDir \o name])
                             ELSE mapping
  /\ k' = k + 1
  /\ UNCHANGED <<pc, dirs, pageGets, skipLogged, page, html, scan, written, out>>
  /\ UNCHANGED <<mvars, cvars>>

ImageLoopEnd(ctx, next) ==
  /\ pc = ctx
  /\ k > Len(Matches(scan, ctx, 1))
  /\ pc' = next
  /\ k' = 1
  /\ UNCHANGED <<dirs, pageGets, skipLogged, page, html, scan, mapping, downloads,
                 written, out>>
  /\ UNCHANGED <<mvars, cvars>>

ImageSrcStep == ImageLoopBody("image_src")
ImageSrcDone == ImageLoopEnd("image_src", "og:image")
OgImageStep == ImageLoopBody("og:image")
OgImageDone == ImageLoopEnd("og:image", "img")
ImgStep == ImageLoopBody("img")
ImgDone == ImageLoopEnd("img", "final")

\* lines 166-167
FinalPass ==
  /\ pc = "final"
  /\ html' = ApplyMapping(html, mapping)
  /\ pc' = "save"
  /\ UNCHANGED <<dirs, pageGets, skipLogged, page, scan, k, mapping, downloads,
                 written, out>>
  /\ UNCHANGED <<mvars, cvars>>

\* lines 170-174: index.html; the write may fail
Save ==
  /\ pc = "save"
  /\ \/ /\ written' = TRUE
        /\ out' = html
        /\ pc' = "done"
     \/ /\ pc' = "raised"
        /\ UNCHANGED <<written, out>>
  /\ UNCHANGED <<dirs, pageGets, skipLogged, page, html, scan, k, mapping, downloads>>
  /\ UNCHANGED <<mvars, cvars>>

ANext ==
  \/ Begin
  \/ FetchPage
  \/ CssStep
  \/ CssDone
  \/ ImageSrcStep
  \/ ImageSrcDone
  \/ OgImageStep
  \/ OgImageDone
  \/ ImgStep
  \/ ImgDone
  \/ FinalPass
  \/ Save

\* ------------------------------------------ fetch_entries, main (blog_arch)
PageSize == 100

\* the sizes of the pages the feed may answer with
BatchSizes == {0, 1, PageSize - 1, PageSize, PageSize + 1}

\* the feed's answer to start-index i with n entries: entries i .. i+n-1
Batch(i, n) == [j \in 1..n |-> i + j - 1]

\* how a call of archive_post may end: returned after archiving, returned
\* after the skip, or raised (page fetch, timestamp, missing field, write)
Outcomes == {"archived", "skipped", "HTTPError", "ValueError", "KeyError", "OSError"}

\* a mutation of Caught: a handler for the HTTP errors alone
CaughtHttpOnly(outcome) == outcome = "HTTPError"

\* except Exception: every exception archive_post raises is an Exception
Caught(outcome) == outcome \in {"HTTPError", "ValueError", "KeyError", "OSError"}

\* a mutation of NextIdx: the index advanced by the page size
NextIdxByPageSize(i, batch) == i + PageSize

\* idx += len(batch)
NextIdx(i, batch) == i + Len(batch)

\* a mutation of LastPage: only an empty page ends the loop
LastPageWhenEmpty(batch) == Len(batch) = 0

\* if not batch: break ... if len(batch) < page_size: break
LastPage(batch) == Len(batch) = 0 \/ Len(batch) < PageSize

MInit ==
  /\ mpc = "fetch"
  /\ entries = <<>>
  /\ idx = 1
  /\ reqs = <<>>
  /\ pages = <<>>
  /\ posts = <<>>
  /\ pos = 0
  /\ calls = <<>>
  /\ lastOutcome = "none"
  /\ errorLogged = FALSE

\* lines 34-40: a request whose status raise_for_status rejects; nothing in
\* main catches it
FetchFails ==
  /\ mpc = "fetch"
  /\ reqs' = Append(reqs, idx)
  /\ mpc' = "aborted"
  /\ UNCHANGED <<entries, idx, pages, posts, pos, calls, lastOutcome, errorLogged>>
  /\ UNCHANGED <<avars, cvars>>

\* lines 34-49: one iteration of the paging loop; the feed is finite, so
\* the MaxPages-th page is not a full one
FetchPageOfFeed ==
  /\ mpc = "fetch"
  /\ \E n \in BatchSizes :
       /\ Len(reqs) + 1 < MaxPages \/ n < PageSize
       /\ LET batch == Batch(idx, n)
          IN /\ reqs' = Append(reqs, idx)
             /\ pages' = Append(pages, batch)
             /\ entries' = entries \o batch
             /\ IF LastPage(batch)
                THEN /\ posts' = entries \o batch
                     /\ mpc' = "loop"
                     /\ idx' = idx
                ELSE /\ idx' = NextIdx(idx, batch)
                     /\ UNCHANGED <<posts, mpc>>
  /\ UNCHANGED <<pos, calls, lastOutcome, errorLogged>>
  /\ UNCHANGED <<avars, cvars>>

\* lines 202-206: one iteration of the loop over the posts
ArchiveNextPost ==
  /\ mpc = "loop"
  /\ pos < Len(posts)
  /\ calls' = Append(calls, posts[pos + 1])
  /\ \E outcome \in Outcomes :
       /\ lastOutcome' = outcome
       /\ IF outcome \in {"archived", "skipped"}
          THEN pos' = pos + 1 /\ UNCHANGED <<mpc, errorLogged>>
          ELSE IF Caught(outcome)
               THEN pos' = pos + 1 /\ errorLogged' = TRUE /\ UNCHANGED mpc
               ELSE mpc' = "aborted" /\ UNCHANGED <<pos, errorLogged>>
  /\ UNCHANGED <<entries, idx, reqs, pages, posts>>
  /\ UNCHANGED <<avars, cvars>>

\* the loop is through
MainDone ==
  /\ mpc = "loop"
  /\ pos = Len(posts)
  /\ mpc' = "done"
  /\ UNCHANGED <<entries, idx, reqs, pages, posts, pos, calls, lastOutcome, errorLogged>>
  /\ UNCHANGED <<avars, cvars>>

MNext ==
  \/ FetchFails
  \/ FetchPageOfFeed
  \/ ArchiveNextPost
  \/ MainDone

\* ------------------------------------------- convert_post (convert_post)
ALLOWED_DIV_CLASSES ==
  {"epigraph", "fullwidth", "iframe-wrapper", "margin-toggle", "sidenote-number",
   "marginnote", "newthought", "sans", "sidenote", "subtitle"}

\* the elements a post body is made of here: divs by class list, images by
\* src (<<>>: no src attribute), links and figures
DivClasses == {<<>>, <<"foo">>, <<"separator">>, <<"sidenote", "foo">>}
ImgSrcs == {<<>>, DataUri, DirUrl, RelUrl}
Elems ==
  {[tag |-> "div", cls |-> c, src |-> <<>>] : c \in DivClasses}
    \cup {[tag |-> "img", cls |-> <<>>, src |-> u] : u \in ImgSrcs}
    \cup {[tag |-> "a", cls |-> <<>>, src |-> <<>>],
          [tag |-> "figure", cls |-> <<>>, src |-> <<>>]}

\* the element m and its ancestors under the parent vector p (0: the body)
RECURSIVE UpFrom(_, _)
UpFrom(p, m) == IF m = 0 THEN {0} ELSE {m} \cup UpFrom(p, p[m])

\* parent vectors of n elements numbered in document order
ParVecs(n) ==
  {p \in [1..n -> 0..(n - 1)] :
     \A e \in 1..n : p[e] < e /\ (e > 1 => p[e] \in UpFrom(p, e - 1))}

\* the bodies html.parser can produce: an <img> has no children
Bodies ==
  UNION {{d \in [n : {n}, par : ParVecs(n), ty : [1..n -> Elems]] :
            \A e \in 1..n : d.par[e] = 0 \/ d.ty[d.par[e]].tag # "img"}
         : n \in 0..MaxElems}

\* the children of element p of a parsed body, in document order
ChildrenIn(d, p) == SelectSeq([e \in 1..d.n |-> e], LAMBDA e : d.par[e] = p)

\* the elements below the elements of seq, in document order
RECURSIVE Pre(_, _)
Pre(kd, seq) ==
  IF seq = <<>> THEN <<>>
  ELSE <<Head(seq)>> \o Pre(kd, kd[Head(seq)]) \o Pre(kd, Tail(seq))

InSeq(seq, x) == \E i \in 1..Len(seq) : seq[i] = x

IndexOf(seq, x) == CHOOSE i \in 1..Len(seq) : seq[i] = x

Attached(kd, e) == \E p \in DOMAIN kd : InSeq(kd[p], e)

\* element.parent
ParentOf(kd, e) == CHOOSE p \in DOMAIN kd : InSeq(kd[p], e)

\* the ancestors of an attached element, the body (0) excluded
RECURSIVE AncestorsOf(_, _)
AncestorsOf(kd, e) ==
  IF ParentOf(kd, e) = 0 THEN {}
  ELSE {ParentOf(kd, e)} \cup AncestorsOf(kd, ParentOf(kd, e))

\* body.find_all(name)
FindAll(name) == SelectSeq(Pre(kids, kids[0]), LAMBDA e : tag[e] = name)

\* [c for c in div.get("class", []) if c in ALLOWED_DIV_CLASSES]
AllowedOf(classes) == SelectSeq(classes, LAMBDA c : c \in ALLOWED_DIV_CLASSES)

\* a mutation of Spliced: the children are appended to the parent
SplicedAtEnd(sibs, i, children) ==
  SubSeq(sibs, 1, i - 1) \o SubSeq(sibs, i + 1, Len(sibs)) \o children

\* the parent's children once the i-th is replaced by its own children
Spliced(sibs, i, children) ==
  SubSeq(sibs, 1, i - 1) \o children \o SubSeq(sibs, i + 1, Len(sibs))

\* div.unwrap()
Unwrap(kd, d) ==
  [kd EXCEPT ![ParentOf(kd, d)] =
               Spliced(kd[ParentOf(kd, d)], IndexOf(kd[ParentOf(kd, d)], d), kd[d]),
             ![d] = <<>>]

\* wrapper.replace_with(fig); fig.append(wrapper)
WrapIn(kd, w, fig) ==
  [kd EXCEPT ![ParentOf(kd, w)][IndexOf(kd[ParentOf(kd, w)], w)] = fig]
    @@ (fig :> <<w>>)

\* src is missing, or a data URI, or names no file: the loop continues
PassedOver(u) ==
  \/ u = <<>>
  \/ StartsWith(u, DataPrefix)
  \/ Basename(PathOf(urljoin(PageUrl, u))) = <<>>

CInit ==
  /\ cpc = "start"
  /\ tag = <<>>
  /\ cls = <<>>
  /\ src = <<>>
  /\ kids = <<>>
  /\ doc0 = [n |-> 0, par |-> <<>>, ty |-> <<>>]
  /\ todo = <<>>
  /\ cdownloads = <<>>
  /\ cwritten = FALSE

\* lines 33-39: the request fails, or the page has no post-body-container
ConvertRaises ==
  /\ cpc = "start"
  /\ cpc' = "raised"
  /\ UNCHANGED <<tag, cls, src, kids, doc0, todo, cdownloads, cwritten>>
  /\ UNCHANGED <<avars, mvars>>

\* lines 33-51: the body is parsed; find_all("div", class_="separator")
ParseBody ==
  /\ cpc = "start"
  /\ \E d \in Bodies :
       /\ doc0' = d
       /\ tag' = [e \in 0..d.n |-> IF e = 0 THEN "[document]" ELSE d.ty[e].tag]
       /\ cls' = [e \in 0..d.n |-> IF e = 0 THEN <<>> ELSE d.ty[e].cls]
       /\ src' = [e \in 0..d.n |-> IF e = 0 THEN <<>> ELSE d.ty[e].src]
       /\ kids' = [e \in 0..d.n |-> ChildrenIn(d, e)]
       /\ todo' = SelectSeq([e \in 1..d.n |-> e],
                    LAMBDA e : d.ty[e].tag = "div" /\ InSeq(d.ty[e].cls, "separator"))
  /\ cpc' = "separators"
  /\ UNCHANGED <<cdownloads, cwritten>>
  /\ UNCHANGED <<avars, mvars>>

\* lines 51-55: one separator div
SeparatorStep ==
  /\ cpc = "separators"
  /\ todo # <<>>
  /\ LET div == Head(todo)
     IN IF \E e \in DOMAIN tag : InSeq(Pre(kids, kids[div]), e) /\ tag[e] = "img"
        THEN /\ tag' = [tag EXCEPT ![div] = "figure"]
             /\ cls' = [cls EXCEPT ![div] = <<>>]
        ELSE UNCHANGED <<tag, cls>>
  /\ todo' = Tail(todo)
  /\ UNCHANGED <<cpc, src, kids, doc0, cdownloads, cwritten>>
  /\ UNCHANGED <<avars, mvars>>

\* line 58: body.find_all("div")
SeparatorsDone ==
  /\ cpc = "separators"
  /\ todo = <<>>
  /\ todo' = FindAll("div")
  /\ cpc' = "divs"
  /\ UNCHANGED <<tag, cls, src, kids, doc0, cdownloads, cwritten>>
  /\ UNCHANGED <<avars, mvars>>

\* lines 58-63: one div
DivStep ==
  /\ cpc = "divs"
  /\ todo # <<>>
  /\ LET div == Head(todo)
     IN IF AllowedOf(cls[div]) # <<>>
        THEN /\ cls' = [cls EXCEPT ![div] = AllowedOf(cls[div])]
             /\ UNCHANGED kids
        ELSE /\ kids' = Unwrap(kids, div)
             /\ UNCHANGED cls
  /\ todo' = Tail(todo)
  /\ UNCHANGED <<cpc, tag, src, doc0, cdownloads, cwritten>>
  /\ UNCHANGED <<avars, mvars>>

\* line 66: body.find_all("img")
DivsDone ==
  /\ cpc = "divs"
  /\ todo = <<>>
  /\ todo' = FindAll("img")
  /\ cpc' = "imgs"
  /\ UNCHANGED <<tag, cls, src, kids, doc0, cdownloads, cwritten>>
  /\ UNCHANGED <<avars, mvars>>

\* lines 66-89: one image
ConvertImgStep ==
  /\ cpc = "imgs"
  /\ todo # <<>>
  /\ LET img == Head(todo)
         full == urljoin(PageUrl, src[img])
         name == Basename(PathOf(full))
         fig == Cardinality(DOMAIN tag)
         inFigure == \E a \in AncestorsOf(kids, img) : tag[a] = "figure"
         wrapper == IF tag[ParentOf(kids, img)] = "a" THEN ParentOf(kids, img) ELSE img
     IN IF PassedOver(src[img])
        THEN UNCHANGED <<tag, cls, src, kids, cdownloads>>
        ELSE \E ok \in DownloadOutcomes(full) :
               /\ cdownloads' = Append(cdownloads, [url |-> full, ok |-> ok])
               /\ IF inFigure
                  THEN /\ src' = IF ok THEN [src EXCEPT ![img] = ImgDir \o name] ELSE src
                       /\ UNCHANGED <<tag, cls, kids>>
                  ELSE /\ src' = (IF ok THEN [src EXCEPT ![img] = ImgDir \o name] ELSE src)
                                   @@ (fig :> <<>>)
                       /\ tag' = tag @@ (fig :> "figure")
                       /\ cls' = cls @@ (fig :> <<>>)
                       /\ kids' = WrapIn(kids, wrapper, fig)
  /\ todo' = Tail(todo)
  /\ UNCHANGED <<cpc, doc0, cwritten>>
  /\ UNCHANGED <<avars, mvars>>

\* lines 91-114: the file is written, or the write fails
WriteHtml ==
  /\ cpc = "imgs"
  /\ todo = <<>>
  /\ \/ cwritten' = TRUE /\ cpc' = "done"
     \/ cpc' = "raised" /\ UNCHANGED cwritten
  /\ UNCHANGED <<tag, cls, src, kids, doc0, todo, cdownloads>>
  /\ UNCHANGED <<avars, mvars>>

CNext ==
  \/ ConvertRaises
  \/ ParseBody
  \/ SeparatorStep
  \/ SeparatorsDone
  \/ DivStep
  \/ DivsDone
  \/ ConvertImgStep
  \/ WriteHtml

\* ------------------------------------------------------ specifications
Init == AInit /\ MInit /\ CInit

\* one call of archive_post
Spec == Init /\ [][ANext]_vars

\* main of blog_arch; the program is sequential and keeps running
MainSpec == Init /\ [][MNext]_vars /\ WF_vars(MNext)

\* one call of convert_post
ConvertSpec == Init /\ [][CNext]_vars

\* ------------------------------------------------ claims on archive_post

\* the references of the fetched page in the four asset contexts
AssetRefs == {n \in 1..Len(page) : page[n].ctx # "text" /\ page[n].val # <<>>}

\* whether the reference resolves to a URL whose path has an empty basename
EmptyBasename(val) == Basename(PathOf(urljoin(PageUrl, val))) = <<>>

\* C1: within one archive_post call no resolved absolute URL is requested
\* more than once, however often and in whatever context or spelling it is
\* referenced and whether or not an earlier attempt failed.
C1_EachUrlRequestedOnce ==
  \A i, j \in 1..Len(downloads) :
    i # j => downloads[i].url # downloads[j].url

\* C2: a post without a rel=alternate, type=text/html link is skipped with
\* a logged message, no output directory and no HTTP request.
C2_SkipCreatesNothing ==
  pc = "skipped" => (skipLogged /\ pageGets = 0 /\ dirs = {})

\* C5: a failed asset download does not stop the post: index.html is
\* written, and every occurrence of the original URL string of an asset whose
\* download failed (and never succeeded) is unrewritten in it.
C5_FailedAssetLeftUnrewritten ==
  pc = "done" =>
    /\ written
    /\ \A i \in 1..Len(downloads) :
         (\A j \in 1..Len(downloads) :
            downloads[j].url = downloads[i].url => ~downloads[j].ok) =>
           \A n \in 1..Len(page) :
             page[n].val = page[downloads[i].at].val => out[n].val = page[n].val

\* C6: running the final mapping-substitution pass again on the rewritten
\* HTML changes nothing.
C6_FinalPassIdempotent ==
  pc \in {"save", "done"} => ApplyMapping(html, mapping) = html

C8_DataUriUnchanged ==
  \A n \in AssetRefs :
    (page[n].ctx \in ImageCtxs /\ StartsWith(page[n].val, DataPrefix)) =>
      /\ \A i \in 1..Len(downloads) :
           downloads[i].ctx \in ImageCtxs => downloads[i].at # n
      /\ written => out[n].val = page[n].val

\* --------------------------------------------- claims on fetch_entries, main

RECURSIVE Flatten(_)
Flatten(pp) == IF pp = <<>> THEN <<>> ELSE Head(pp) \o Flatten(Tail(pp))

\* C3: every entry fetch_entries returned is passed to archive_post once, in
\* feed order; an exception raised by one post is caught and the loop goes
\* on, so the run reaches the end of the list.
C3_EveryPostArchivedInOrder ==
  /\ [](mpc \in {"loop", "done"} => calls = SubSeq(posts, 1, pos))
  /\ (mpc = "loop") ~> (mpc = "done" /\ calls = posts)

\* C3's case: an error was caught on the way, a later post was archived, and
\* the loop ended with every post passed
C3_Witness ==
  /\ mpc = "done"
  /\ errorLogged
  /\ lastOutcome = "archived"
  /\ Len(posts) > 1
  /\ calls = posts

\* C4: the start-index is 1 and then 1 plus the entries received so far;
\* no request follows a page that is empty or shorter than the page size;
\* the result is the pages received, concatenated in request order, no
\* entry of the feed dropped or duplicated.
C4_Pagination ==
  /\ \A r \in 1..Len(reqs) : reqs[r] = 1 + Len(Flatten(SubSeq(pages, 1, r - 1)))
  /\ \A r \in 1..Len(pages) : Len(pages[r]) < PageSize => Len(reqs) = r
  /\ mpc \in {"loop", "done"} =>
       /\ posts = Flatten(pages)
       /\ Len(pages[Len(pages)]) < PageSize
       /\ \A j \in 1..Len(posts) : posts[j] = j

\* C4's case: a full page, then a shorter one that ended the paging
C4_Witness ==
  /\ mpc = "loop"
  /\ Len(pages) = 2
  /\ Len(pages[1]) >= PageSize
  /\ Len(pages[2]) \in 1..(PageSize - 1)
  /\ Len(posts) = Len(pages[1]) + Len(pages[2])

\* ------------------------------------------------- claims on convert_post

\* whether the parsed body's element e is a div that keeps no class
Disallowed(e) ==
  /\ tag[e] = "div"
  /\ \A i \in 1..Len(doc0.ty[e].cls) : doc0.ty[e].cls[i] \notin ALLOWED_DIV_CLASSES

\* the nearest ancestor of e in the parsed body that is not such a div
RECURSIVE NearestKept(_)
NearestKept(e) ==
  IF doc0.par[e] = 0 THEN 0
  ELSE IF Disallowed(doc0.par[e]) THEN NearestKept(doc0.par[e])
  ELSE doc0.par[e]

\* C9: after the cleanup every img of the body is inside a figure, the
\* images with a data: src, with no src, with a URL of empty basename and
\* with a failed download included.
C9_EveryImgInFigure ==
  cpc = "done" =>
    \A e \in DOMAIN tag :
      (tag[e] = "img" /\ Attached(kids, e)) =>
        \E a \in AncestorsOf(kids, e) : tag[a] = "figure"

\* C10: after the div cleanup every div left has a non-empty class list of
\* allowed classes only ([sidenote, foo] becomes [sidenote]); every div
\* without an allowed class is gone, and its children stand where it stood:
\* the elements left are in their original order, each under its nearest
\* ancestor that was left.
C10_DivCleanup ==
  /\ (cpc \in {"imgs", "done"} \/ (cpc = "divs" /\ todo = <<>>)) =>
       \A e \in 1..doc0.n :
         tag[e] = "div" =>
           /\ Attached(kids, e) <=> ~Disallowed(e)
           /\ Attached(kids, e) =>
                /\ cls[e] # <<>>
                /\ \A i \in 1..Len(cls[e]) : cls[e][i] \in ALLOWED_DIV_CLASSES
                /\ doc0.ty[e].cls = <<"sidenote", "foo">> => cls[e] = <<"sidenote">>
  /\ (cpc = "divs" /\ todo = <<>>) =>
       /\ Pre(kids, kids[0])
            = SelectSeq([e \in 1..doc0.n |-> e], LAMBDA e : ~Disallowed(e))
       /\ \A e \in 1..doc0.n :
            ~Disallowed(e) => ParentOf(kids, e) = NearestKept(e)

\* C10's case: a div without an allowed class nested in another one, both
\* removed, around a div that kept "sidenote" of its two classes
C10_Witness ==
  /\ cpc = "divs"
  /\ todo = <<>>
  /\ \E d, e \in 1..doc0.n :
       /\ Disallowed(d)
       /\ doc0.par[d] # 0
       /\ Disallowed(doc0.par[d])
       /\ doc0.par[e] = d
       /\ doc0.ty[e].cls = <<"sidenote", "foo">>
       /\ cls[e] = <<"sidenote">>
       /\ ParentOf(kids, e) = 0

====
